---- MODULE Spec2Model ----
(***************************************************************************)
(* Model of src/main.rs: the BRUH run-length codec (png_to_bruh,           *)
(* bruh_to_png), the container file, the parallel rasterizer, and the CLI  *)
(* dispatch in main with the viewer start-up (ImagePreview::new).          *)
(*                                                                         *)
(* Four specifications share the variables and the actions:                *)
(*   Spec         the run-length scan, the container byte stream it is     *)
(*                written as, and the decode loop over that stream;        *)
(*   SpecCompile  `compile <path>`: png_to_bruh with the file system and   *)
(*                its faults, and main's report;                           *)
(*   SpecDecode   the default path: bruh_to_png over arbitrary files,      *)
(*                main, run_native and ImagePreview::new;                  *)
(*   SpecRender   a small grid encoded, decoded and painted by the         *)
(*                parallel tasks up to the snapshot.                       *)
(*                                                                         *)
(* Bytes are 0..255.  A u32 is a natural number below 2^32; the native     *)
(* byte order is modelled as little-endian.  Header values are kept below  *)
(* 2^31 so that every intermediate value is a TLC integer; the product     *)
(* width * height is computed digit by digit in base 256, which gives both *)
(* the wrapped u32 result and the overflow flag.                           *)
(***************************************************************************)
EXTENDS Integers, Sequences, FiniteSets, TLC

VARIABLES
    pc,             \* position of the process in main / png_to_bruh / bruh_to_png
    exit,           \* how the process ended: "running", "ok", "err", "panic"
    result,         \* value returned by png_to_bruh / bruh_to_png: "none", "Ok", "Err"
    stdout, stderr, \* lines printed
    img,            \* the source image as image::open yields it
    scanned,        \* pixels consumed by the `for pixel in img.pixels()` loop
    last_color, run_length, encoded_data,
    bruh_file,      \* the .bruh file: [exists, bytes]
    cursor,         \* write offset of the handle opened at line 60
    rec,            \* records written so far by the loop at line 69
    contents, width, height, decoded_data, idx, pos,
    run_left,       \* iterations left of `for _ in 0..run_length`
    color,          \* color of the record being expanded
    canvas,         \* cells drawn so far: cell -> RGBA
    drawn,          \* history: <<task, cell>> for every draw_rect executed
    pending,        \* paint tasks of the par_iter not yet executed
    image,          \* surface.image_snapshot()
    data,           \* what image.encode returned: [some, bytes]
    temp,           \* the file temp.png: [exists, data]
    viewer,         \* "none", "window" (run_native entered), "showing"
    viewer_image    \* bytes ImagePreview holds

encVars  == <<img, scanned, last_color, run_length, encoded_data>>
fileVars == <<bruh_file, cursor, rec>>
decVars  == <<contents, width, height, decoded_data, idx, pos, run_left, color>>
rastVars == <<canvas, drawn, pending, image, data>>
uiVars   == <<temp, viewer, viewer_image>>
outVars  == <<exit, result, stdout, stderr>>
vars     == <<pc, outVars, encVars, fileVars, decVars, rastVars, uiVars>>

(***************************************************************************)
(* Bounds of the model.                                                    *)
(***************************************************************************)
MaxDim       == 2   \* small grids: width, height in 0..MaxDim
MaxPixels    == 4   \* small grids and decode buffers: at most MaxPixels pixels
MaxLongRows  == 2   \* single-color grids: 1..MaxLongRows rows
MaxRuns      == 2   \* crafted containers: at most MaxRuns records
MaxRunByte   == 3   \* crafted containers: length bytes 0..MaxRunByte
StaleLen     == 3   \* length of the short prior content of a destination

(***************************************************************************)
(* Data: pixels, bytes, u32.                                               *)
(***************************************************************************)
Black  == <<0, 0, 0>>
Red    == <<255, 0, 0>>
Blue   == <<0, 0, 255>>
Colors == {Black, Red, Blue}

RunCap == 255

AsU8(n) == n % 256

Pow256(k) == IF k = 0 THEN 1 ELSE IF k = 1 THEN 256 ELSE IF k = 2 THEN 65536 ELSE 16777216

Digit(n, k) == (n \div Pow256(k)) % 256

\* u32::to_ne_bytes
to_ne_bytes(n) == <<Digit(n, 0), Digit(n, 1), Digit(n, 2), Digit(n, 3)>>

\* vec_to_u32_ne: copy_from_slice into [u8; 4], then u32::from_ne_bytes
vec_to_u32_ne(bytes) ==
    bytes[1] + 256 * bytes[2] + 65536 * bytes[3] + 16777216 * bytes[4]

\* Column k of the schoolbook product of two u32 in base 256.
Col(a, b, k) ==
    LET P(i) == IF k - i \in 0..3 THEN Digit(a, i) * Digit(b, k - i) ELSE 0
    IN  P(0) + P(1) + P(2) + P(3)

RECURSIVE Carry(_, _, _)
Carry(a, b, k) ==
    IF k = 0 THEN 0 ELSE (Col(a, b, k - 1) + Carry(a, b, k - 1)) \div 256

\* Digit k (0..7) of the mathematical product a * b.
ProdDigit(a, b, k) == (Col(a, b, k) + Carry(a, b, k)) % 256

\* The mathematical product does not fit a u32.
MulOverflows(a, b) == \E k \in 4..7 : ProdDigit(a, b, k) # 0

\* u32 `width * height` as a release build computes it: the low 32 bits.
WrappingMul(a, b) ==
    ProdDigit(a, b, 0) + 256 * ProdDigit(a, b, 1)
        + 65536 * ProdDigit(a, b, 2) + 16777216 * ProdDigit(a, b, 3)

RECURSIVE SumLengths(_)
SumLengths(runs) ==
    IF runs = <<>> THEN 0 ELSE runs[1][1] + SumLengths(Tail(runs))

(***************************************************************************)
(* Images.  A grid is a function from (x, y) to a color; img.pixels()      *)
(* yields it row-major: x fastest, then y.                                 *)
(***************************************************************************)
Cells(w, h) == (0..(w - 1)) \X (0..(h - 1))

NoImage == [present |-> FALSE, width |-> 0, height |-> 0, px |-> <<>>]

Image(w, h, f) == [present |-> TRUE, width |-> w, height |-> h, px |-> f]

SmallDims == { d \in (0..MaxDim) \X (0..MaxDim) : d[1] * d[2] <= MaxPixels }

SmallGrids ==
    UNION { { Image(d[1], d[2], f) : f \in [Cells(d[1], d[2]) -> Colors] } :
            d \in SmallDims }

\* Single-color grids around and beyond the cap, e.g. 300 x 1.
LongWidths == {RunCap - 1, RunCap, RunCap + 1, RunCap + 45}

LongGrids ==
    { Image(w, h, [c \in Cells(w, h) |-> col]) :
        w \in LongWidths, h \in 1..MaxLongRows, col \in {Black, Red} }

NumPixels(g) == g.width * g.height

\* The k-th pixel (k from 0) that img.pixels() yields.
PixelAt(g, k) == g.px[<<k % g.width, k \div g.width>>]

(***************************************************************************)
(* png_to_bruh: the run-length scan, lines 28-47.                          *)
(***************************************************************************)
ExtendsRunInclusive(current_color, last, len) ==
    current_color = last /\ len <= RunCap

ExtendsRunUncapped(current_color, last, len) == current_color = last

\* line 34: the pixel extends the pending run
ExtendsRun(current_color, last, len) == current_color = last /\ len < RunCap

\* lines 37-39 and 45-47: push the pending run, its length cast to u8
Emit(runs, len, col) ==
    IF len > 0 THEN Append(runs, <<AsU8(len), col>>) ELSE runs

ScanPixel ==
    /\ pc = "scan"
    /\ scanned < NumPixels(img)
    /\ LET current_color == PixelAt(img, scanned)
       IN  IF ExtendsRun(current_color, last_color, run_length)
           THEN /\ run_length' = run_length + 1
                /\ UNCHANGED <<last_color, encoded_data>>
           ELSE /\ encoded_data' = Emit(encoded_data, run_length, last_color)
                /\ last_color' = current_color
                /\ run_length' = 1
    /\ scanned' = scanned + 1
    /\ UNCHANGED <<pc, img, outVars, fileVars, decVars, rastVars, uiVars>>

ScanFlush ==
    /\ pc = "scan"
    /\ scanned = NumPixels(img)
    /\ encoded_data' = Emit(encoded_data, run_length, last_color)
    /\ pc' = "encoded"
    /\ UNCHANGED <<img, scanned, last_color, run_length>>
    /\ UNCHANGED <<outVars, fileVars, decVars, rastVars, uiVars>>

(***************************************************************************)
(* The container: lines 50-54 and 66-72.                                   *)
(***************************************************************************)
RECURSIVE RecordBytes(_)
RecordBytes(runs) ==
    IF runs = <<>> THEN <<>>
    ELSE <<runs[1][1]>> \o runs[1][2] \o RecordBytes(Tail(runs))

\* The bytes the write_all calls of lines 66-72 hand to the file, in order.
ContainerBytes(w, h, runs) ==
    to_ne_bytes(w) \o to_ne_bytes(h) \o RecordBytes(runs)

NoFile == [exists |-> FALSE, bytes |-> <<>>]

File(b) == [exists |-> TRUE, bytes |-> b]

\* The whole byte stream of lines 66-72 lands in a destination holding
\* nothing else, which bruh_to_png reads next.
EmitContainer ==
    /\ pc = "encoded"
    /\ bruh_file' = File(ContainerBytes(img.width, img.height, encoded_data))
    /\ rec' = Len(encoded_data)
    /\ cursor' = Len(bruh_file'.bytes)
    /\ pc' = "read"
    /\ UNCHANGED <<outVars, encVars, decVars, rastVars, uiVars>>

(***************************************************************************)
(* bruh_to_png: read, header, buffer, decode loop; lines 83-101.           *)
(***************************************************************************)
Panic ==
    /\ pc' = "exit"
    /\ exit' = "panic"
    /\ UNCHANGED <<result, stdout, stderr>>

\* line 83: fs::read(&path).expect(..)
ReadFile ==
    /\ pc = "read"
    /\ IF bruh_file.exists
       THEN /\ contents' = bruh_file.bytes
            /\ pc' = "header"
            /\ UNCHANGED outVars
       ELSE /\ Panic
            /\ UNCHANGED contents
    /\ UNCHANGED <<width, height, decoded_data, idx, pos, run_left, color>>
    /\ UNCHANGED <<encVars, fileVars, rastVars, uiVars>>

\* lines 84-85: the slices [0..4] and [4..8] panic on a shorter input
ParseHeader ==
    /\ pc = "header"
    /\ IF Len(contents) < 8
       THEN /\ Panic
            /\ UNCHANGED <<width, height>>
       ELSE /\ width' = vec_to_u32_ne(SubSeq(contents, 1, 4))
            /\ height' = vec_to_u32_ne(SubSeq(contents, 5, 8))
            /\ pc' = "alloc"
            /\ UNCHANGED outVars
    /\ UNCHANGED <<contents, decoded_data, idx, pos, run_left, color>>
    /\ UNCHANGED <<encVars, fileVars, rastVars, uiVars>>

\* line 87: vec![[0, 0, 0]; (width * height) as usize]
Buffer(w, h) == [k \in 1..WrappingMul(w, h) |-> Black]

\* lines 87-89.  `width * height` is a u32 product: a build with overflow
\* checks panics when it does not fit, a build without them wraps.
Alloc ==
    /\ pc = "alloc"
    /\ \E overflow_checks \in BOOLEAN :
         IF MulOverflows(width, height) /\ overflow_checks
         THEN /\ Panic
              /\ UNCHANGED <<decoded_data, idx, pos>>
         ELSE /\ decoded_data' = Buffer(width, height)
              /\ idx' = 8
              /\ pos' = 0
              /\ pc' = "loop"
              /\ UNCHANGED outVars
    /\ UNCHANGED <<contents, width, height, run_left, color>>
    /\ UNCHANGED <<encVars, fileVars, rastVars, uiVars>>

\* contents[i] for a 0-based i < contents.len()
At(i) == contents[i + 1]

RecordColorReversed(i) == <<At(i + 3), At(i + 2), At(i + 1)>>

\* line 93: the color of the record at idx
RecordColor(i) == <<At(i + 1), At(i + 2), At(i + 3)>>

\* lines 91-93: the loop test and the four indexed reads of one record
LoopHead ==
    /\ pc = "loop"
    /\ IF idx < Len(contents)
       THEN IF idx + 3 < Len(contents)
            THEN /\ run_left' = At(idx)
                 /\ color' = RecordColor(idx)
                 /\ pc' = "expand"
                 /\ UNCHANGED outVars
            ELSE /\ Panic
                 /\ UNCHANGED <<run_left, color>>
       ELSE /\ pc' = "decoded"
            /\ UNCHANGED <<run_left, color, outVars>>
    /\ UNCHANGED <<contents, width, height, decoded_data, idx, pos>>
    /\ UNCHANGED <<encVars, fileVars, rastVars, uiVars>>

\* lines 95-100: one iteration of the inner loop, or the step to the next record
Expand ==
    /\ pc = "expand"
    /\ IF run_left = 0
       THEN /\ idx' = idx + 4
            /\ pc' = "loop"
            /\ UNCHANGED <<decoded_data, pos, run_left, outVars>>
       ELSE IF pos < Len(decoded_data)
            THEN /\ decoded_data' = [decoded_data EXCEPT ![pos + 1] = color]
                 /\ pos' = pos + 1
                 /\ run_left' = run_left - 1
                 /\ UNCHANGED <<idx, pc, outVars>>
            ELSE /\ Panic
                 /\ UNCHANGED <<decoded_data, pos, run_left, idx>>
    /\ UNCHANGED <<contents, width, height, color>>
    /\ UNCHANGED <<encVars, fileVars, rastVars, uiVars>>

(***************************************************************************)
(* png_to_bruh with the file system: lines 26 and 49-79, and main's report *)
(* of its result, lines 151-156.                                           *)
(***************************************************************************)
\* line 26: image::open(&path).expect("File not found!")
OpenImage ==
    /\ pc = "open_image"
    /\ IF img.present
       THEN /\ pc' = "scan"
            /\ UNCHANGED outVars
       ELSE Panic
    /\ UNCHANGED <<encVars, fileVars, decVars, rastVars, uiVars>>

\* line 58: `let _ = File::create(..)`.  File::create truncates or creates;
\* its Result is dropped, so a failure leaves the destination as it was and
\* the function goes on.  (line 49: the path comes from a String of
\* env::args(), so to_str() is Some.)
CreateDest ==
    /\ pc = "encoded"
    /\ \E ok \in BOOLEAN :
         bruh_file' = IF ok THEN File(<<>>) ELSE bruh_file
    /\ pc' = "open_dest"
    /\ UNCHANGED <<cursor, rec, outVars, encVars, decVars, rastVars, uiVars>>

\* lines 60-64: OpenOptions write + create, no truncate, no append:
\* the offset is 0 and existing content stays.
OpenDest ==
    /\ pc = "open_dest"
    /\ \E ok \in BOOLEAN :
         IF ok
         THEN /\ bruh_file' = IF bruh_file.exists THEN bruh_file ELSE File(<<>>)
              /\ cursor' = 0
              /\ pc' = "w_width"
              /\ UNCHANGED outVars
         ELSE /\ Panic
              /\ UNCHANGED <<bruh_file, cursor>>
    /\ UNCHANGED <<rec, encVars, decVars, rastVars, uiVars>>

\* Bytes `b` written over `old` from offset `at` (at <= Len(old)).
WriteAt(old, at, b) ==
    SubSeq(old, 1, at) \o b \o SubSeq(old, at + Len(b) + 1, Len(old))

\* file.write_all(bytes)?: all of the bytes land and the function goes on
\* to `next`, or the write fails after n < len bytes and `?` returns Err.
WriteAll(bytes, next) ==
    \E n \in 0..Len(bytes) :
        /\ bruh_file' = [bruh_file EXCEPT !.bytes = WriteAt(@, cursor, SubSeq(bytes, 1, n))]
        /\ cursor' = cursor + n
        /\ IF n = Len(bytes)
           THEN /\ pc' = next
                /\ UNCHANGED outVars
           ELSE /\ pc' = "report"
                /\ result' = "Err"
                /\ UNCHANGED <<exit, stdout, stderr>>

\* line 66
WriteWidth ==
    /\ pc = "w_width"
    /\ WriteAll(to_ne_bytes(img.width), "w_height")
    /\ UNCHANGED <<rec, encVars, decVars, rastVars, uiVars>>

\* line 67
WriteHeight ==
    /\ pc = "w_height"
    /\ WriteAll(to_ne_bytes(img.height), "w_records")
    /\ UNCHANGED <<rec, encVars, decVars, rastVars, uiVars>>

\* lines 69-70
WriteRunLength ==
    /\ pc = "w_records"
    /\ rec < Len(encoded_data)
    /\ WriteAll(<<encoded_data[rec + 1][1]>>, "w_color")
    /\ UNCHANGED <<rec, encVars, decVars, rastVars, uiVars>>

\* line 71
WriteColor ==
    /\ pc = "w_color"
    /\ WriteAll(encoded_data[rec + 1][2], "w_records")
    /\ rec' = rec + 1
    /\ UNCHANGED <<encVars, decVars, rastVars, uiVars>>

\* lines 74 and 79: file.flush()? and Ok(())
FlushFile ==
    /\ pc = "w_records"
    /\ rec = Len(encoded_data)
    /\ \E ok \in BOOLEAN : result' = IF ok THEN "Ok" ELSE "Err"
    /\ pc' = "report"
    /\ UNCHANGED <<exit, stdout, stderr, encVars, fileVars, decVars, rastVars, uiVars>>

Success == "Successfully converted PNG to BRUH"
Failure == "Failed to convert PNG to BRUH"

\* lines 151-156: the match on png_to_bruh's result, then Ok(())
Report ==
    /\ pc = "report"
    /\ IF result = "Ok"
       THEN stdout' = Append(stdout, Success) /\ UNCHANGED stderr
       ELSE stderr' = Append(stderr, Failure) /\ UNCHANGED stdout
    /\ exit' = "ok"
    /\ pc' = "exit"
    /\ UNCHANGED <<result, encVars, fileVars, decVars, rastVars, uiVars>>

(***************************************************************************)
(* bruh_to_png: surface, parallel paint, snapshot, temp.png; lines 103-137.*)
(***************************************************************************)
NoData == [some |-> FALSE, bytes |-> <<>>]

\* lines 110-111: Surface::new_raster(..).unwrap().  An empty ImageInfo
\* (a zero width or height) gives None, and so can a failed allocation.
\* lines 113-115: one paint task per element of decoded_data.
NewSurface ==
    /\ pc = "decoded"
    /\ \E ok \in BOOLEAN :
         IF ok /\ width > 0 /\ height > 0
         THEN /\ canvas' = <<>>
              /\ drawn' = {}
              /\ pending' = 0..(Len(decoded_data) - 1)
              /\ pc' = "paint"
              /\ UNCHANGED outVars
         ELSE /\ Panic
              /\ UNCHANGED <<canvas, drawn, pending>>
    /\ UNCHANGED <<image, data, encVars, fileVars, decVars, uiVars>>

CellOfByHeight(i, w) == <<i % w, i \div height>>

\* lines 125-126: x = i % width, y = i / width
CellOf(i, w) == <<i % w, i \div w>>

\* lines 117-122: Color4f(r/255, g/255, b/255, 1.0), which the RGBA8888
\* surface stores as the bytes (r, g, b, 255).
ToColor4f(c) == <<c[1], c[2], c[3], 255>>

\* lines 127-128: a 1x1 rect at `cell` filled with `c`; outside the canvas
\* it is clipped away.
DrawRect(cv, cell, c) ==
    IF cell[1] < width /\ cell[2] < height
    THEN [p \in (DOMAIN cv) \cup {cell} |-> IF p = cell THEN c ELSE cv[p]]
    ELSE cv

\* lines 116-129: the closure run for element i, by any worker at any time
Paint(i) ==
    /\ pc = "paint"
    /\ i \in pending
    /\ canvas' = DrawRect(canvas, CellOf(i, width), ToColor4f(decoded_data[i + 1]))
    /\ drawn' = drawn \cup {<<i, CellOf(i, width)>>}
    /\ pending' = pending \ {i}
    /\ UNCHANGED <<pc, image, data, outVars, encVars, fileVars, decVars, uiVars>>

\* line 129: for_each returns when every task has run
Joined == pending = {}

\* line 131: surface.image_snapshot()
Snapshot ==
    /\ pc = "paint"
    /\ Joined
    /\ image' = canvas
    /\ pc' = "encode"
    /\ UNCHANGED <<canvas, drawn, pending, data, outVars, encVars, fileVars, decVars, uiVars>>

\* image.encode(None, PNG, 100): the snapshot in PNG form
EncodePNG(w, h, im) == [format |-> "PNG", width |-> w, height |-> h, pixels |-> im]

NoTemp == [exists |-> FALSE, data |-> <<>>]

\* lines 133-137: encode gives Some(data) or None; only Some writes
\* temp.png (a failed write panics); both return Ok((width, height)).
Encode ==
    /\ pc = "encode"
    /\ \E some \in BOOLEAN, written \in BOOLEAN :
         IF some
         THEN /\ data' = [some |-> TRUE, bytes |-> EncodePNG(width, height, image)]
              /\ IF written
                 THEN /\ temp' = [exists |-> TRUE, data |-> data'.bytes]
                      /\ result' = "Ok"
                      /\ pc' = "returned"
                      /\ UNCHANGED <<exit, stdout, stderr>>
                 ELSE /\ Panic
                      /\ UNCHANGED temp
         ELSE /\ data' = NoData
              /\ result' = "Ok"
              /\ pc' = "returned"
              /\ UNCHANGED <<temp, exit, stdout, stderr>>
    /\ UNCHANGED <<canvas, drawn, pending, image, viewer, viewer_image>>
    /\ UNCHANGED <<encVars, fileVars, decVars>>

(***************************************************************************)
(* main, default path, and the viewer: lines 158-170 and 180-192.          *)
(***************************************************************************)
\* lines 158-170: print the size, then eframe::run_native, which opens the
\* window and calls the app creator, or fails and returns the error.
MainDecode ==
    /\ pc = "returned"
    /\ stdout' = Append(stdout, <<width, height>>)
    /\ \E ok \in BOOLEAN :
         IF ok
         THEN /\ viewer' = "window"
              /\ pc' = "app"
              /\ UNCHANGED exit
         ELSE /\ exit' = "err"
              /\ pc' = "exit"
              /\ UNCHANGED viewer
    /\ UNCHANGED <<result, stderr, temp, viewer_image>>
    /\ UNCHANGED <<encVars, fileVars, decVars, rastVars>>

\* line 169 and lines 181-191: ImagePreview::default() is new(0, 0), which
\* reads temp.png whatever wrote it, removes it and decodes the bytes;
\* each of the three steps panics when it fails.
AppCreate ==
    /\ pc = "app"
    /\ \E ok \in BOOLEAN :
         IF ok /\ temp.exists
         THEN /\ viewer_image' = temp.data
              /\ temp' = NoTemp
              /\ viewer' = "showing"
              /\ pc' = "ui"
              /\ UNCHANGED outVars
         ELSE /\ Panic
              /\ UNCHANGED <<temp, viewer, viewer_image>>
    /\ UNCHANGED <<encVars, fileVars, decVars, rastVars>>

\* The window is closed: run_native returns Ok and main returns it.
ViewerClose ==
    /\ pc = "ui"
    /\ exit' = "ok"
    /\ pc' = "exit"
    /\ UNCHANGED <<result, stdout, stderr, encVars, fileVars, decVars, rastVars, uiVars>>

(***************************************************************************)
(* Initial values shared by the specifications.                            *)
(***************************************************************************)
InitRest ==
    /\ exit = "running" /\ result = "none"
    /\ stdout = <<>> /\ stderr = <<>>
    /\ scanned = 0 /\ last_color = Black /\ run_length = 0 /\ encoded_data = <<>>
    /\ cursor = 0 /\ rec = 0
    /\ contents = <<>> /\ width = 0 /\ height = 0
    /\ decoded_data = <<>> /\ idx = 0 /\ pos = 0 /\ run_left = 0 /\ color = Black
    /\ canvas = <<>> /\ drawn = {} /\ pending = {} /\ image = <<>>
    /\ data = NoData
    /\ viewer = "none" /\ viewer_image = <<>>

(***************************************************************************)
(* Spec: scan, container, decode loop.                                     *)
(***************************************************************************)
Init ==
    /\ InitRest
    /\ pc = "scan"
    /\ img \in SmallGrids \cup LongGrids
    /\ bruh_file = NoFile
    /\ temp = NoTemp

Next ==
    \/ ScanPixel
    \/ ScanFlush
    \/ EmitContainer
    \/ ReadFile
    \/ ParseHeader
    \/ Alloc
    \/ LoopHead
    \/ Expand

Spec == Init /\ [][Next]_vars

(***************************************************************************)
(* SpecRender: a small grid is scanned, written, decoded, and the buffer   *)
(* painted by the parallel tasks in every order, up to the snapshot.       *)
(***************************************************************************)
InitRender ==
    /\ InitRest
    /\ pc = "scan"
    /\ img \in SmallGrids
    /\ bruh_file = NoFile
    /\ temp = NoTemp

NextRender ==
    \/ ScanPixel
    \/ ScanFlush
    \/ EmitContainer
    \/ ReadFile
    \/ ParseHeader
    \/ Alloc
    \/ LoopHead
    \/ Expand
    \/ NewSurface
    \/ \E i \in pending : Paint(i)
    \/ Snapshot

SpecRender == InitRender /\ [][NextRender]_vars

(***************************************************************************)
(* SpecCompile: `compile <path>` with a present or missing source image    *)
(* and a destination that is absent, empty, shorter or longer than the     *)
(* container about to be written.                                          *)
(***************************************************************************)
StaleBytes(n) == [k \in 1..n |-> 170]

LongStaleLen == 8 + 4 * MaxPixels + 4

PriorDest == {NoFile, File(<<>>), File(StaleBytes(StaleLen)), File(StaleBytes(LongStaleLen))}

InitCompile ==
    /\ InitRest
    /\ pc = "open_image"
    /\ img \in SmallGrids \cup {NoImage}
    /\ bruh_file \in PriorDest
    /\ temp = NoTemp

NextCompile ==
    \/ OpenImage
    \/ ScanPixel
    \/ ScanFlush
    \/ CreateDest
    \/ OpenDest
    \/ WriteWidth
    \/ WriteHeight
    \/ WriteRunLength
    \/ WriteColor
    \/ FlushFile
    \/ Report

SpecCompile == InitCompile /\ [][NextCompile]_vars

(***************************************************************************)
(* SpecDecode: the default path over crafted .bruh files: every prefix of  *)
(* a container with a header from HeaderDims and up to MaxRuns records,    *)
(* with temp.png absent or left behind by an earlier run.                  *)
(***************************************************************************)
HeaderVals == (0..MaxDim) \cup {Pow256(2)}

HeaderDims ==
    { d \in HeaderVals \X HeaderVals :
        /\ ProdDigit(d[1], d[2], 3) = 0 /\ ProdDigit(d[1], d[2], 2) = 0
        /\ WrappingMul(d[1], d[2]) <= MaxPixels }

CraftedRecords == (0..MaxRunByte) \X {Black, Red}

CraftedRuns == UNION { [1..n -> CraftedRecords] : n \in 0..MaxRuns }

\* The first n bytes of the container of header d and records r.
CraftedFile(d, r, n) == File(SubSeq(ContainerBytes(d[1], d[2], r), 1, n))

\* temp.png of an earlier run whose run_native failed after the write.
StaleTemp == [exists |-> TRUE, data |-> EncodePNG(1, 1, <<>>)]

InitDecode ==
    /\ InitRest
    /\ pc = "read"
    /\ img = NoImage
    /\ \/ bruh_file = NoFile
       \/ \E d \in HeaderDims, r \in CraftedRuns :
            \E n \in 0..(8 + 4 * Len(r)) : bruh_file = CraftedFile(d, r, n)
    /\ temp \in {NoTemp, StaleTemp}

NextDecode ==
    \/ ReadFile
    \/ ParseHeader
    \/ Alloc
    \/ LoopHead
    \/ Expand
    \/ NewSurface
    \/ \E i \in pending : Paint(i)
    \/ Snapshot
    \/ Encode
    \/ MainDecode
    \/ AppCreate
    \/ ViewerClose

SpecDecode == InitDecode /\ [][NextDecode]_vars

(***************************************************************************)
(* Claims checked under Spec.                                              *)
(***************************************************************************)
IsUniform(g) == \A p \in DOMAIN g.px : g.px[p] = g.px[<<0, 0>>]

CeilDiv(n, d) == (n + d - 1) \div d

\* C1: round trip.  Neither the scan nor the decode loop fails, and when the
\* decode loop has consumed the container written for grid G, the pixel
\* buffer has exactly w*h pixels and pixel k is G's cell (k mod w, k div w).
C1_RoundTrip ==
    /\ exit = "running"
    /\ pc = "decoded" =>
          /\ Len(decoded_data) = img.width * img.height
          /\ \A k \in 0..(img.width * img.height - 1) :
                decoded_data[k + 1] = img.px[<<k % img.width, k \div img.width>>]

\* A 2x2 grid of four runs has been decoded.
C1_Witness ==
    /\ pc = "decoded"
    /\ img.width = 2 /\ img.height = 2
    /\ Len(encoded_data) = 4
    /\ pos = 4

\* C2: every emitted run has a length in 1..255, the pending run_length is
\* never above 255 (so its cast to u8 changes nothing), the emitted lengths
\* plus the pending run_length equal the pixels consumed at every point of
\* the scan, and after the final flush the lengths sum to width*height.
C2_EncodedStream ==
    /\ \A r \in 1..Len(encoded_data) : encoded_data[r][1] \in 1..255
    /\ run_length \in 0..255
    /\ AsU8(run_length) = run_length
    /\ pc = "scan" => SumLengths(encoded_data) + run_length = scanned
    /\ pc # "scan" => SumLengths(encoded_data) = img.width * img.height

\* Mid-scan, just after a run was cut at the cap.
C2_Witness ==
    /\ pc = "scan"
    /\ scanned = 256
    /\ run_length = 1
    /\ Len(encoded_data) = 1
    /\ encoded_data[1][1] = 255

\* C3: when the scan of a single-color grid of N >= 256 pixels has flushed
\* its last run, the stream holds ceil(N/255) runs of that color, each at
\* most 255 long, all but the last exactly 255, summing to N.
C3_RunCap ==
    (pc = "encoded" /\ img.width * img.height >= 256 /\ IsUniform(img)) =>
        LET N == img.width * img.height
            n == Len(encoded_data)
        IN  /\ n = CeilDiv(N, 255)
            /\ \A r \in 1..n : encoded_data[r][1] <= 255
            /\ \A r \in 1..n : encoded_data[r][2] = img.px[<<0, 0>>]
            /\ \A r \in 1..(n - 1) : encoded_data[r][1] = 255
            /\ SumLengths(encoded_data) = N

\* 300 identical red pixels: (255, red) then (45, red).
C3_Witness ==
    /\ pc = "encoded"
    /\ img.width = 300 /\ img.height = 1
    /\ encoded_data = << <<255, Red>>, <<45, Red>> >>

(***************************************************************************)
(* Claims checked under SpecCompile.                                       *)
(***************************************************************************)
\* The records a reader finds in `b` from offset 8 on (Len(b) >= 8).
RunsOf(b) ==
    [k \in 1..((Len(b) - 8) \div 4) |->
        <<b[4 * k + 5], <<b[4 * k + 6], b[4 * k + 7], b[4 * k + 8]>>>>]

\* C6: when png_to_bruh returns Ok, whatever the destination held before,
\* the destination holds exactly the width bytes, the height bytes and one
\* 4-byte record per run, 8 + 4*|R| bytes in all, and reading them back
\* gives the same width, height and runs.
C6_ContainerExact ==
    (pc = "report" /\ result = "Ok") =>
        LET b == bruh_file.bytes
        IN  /\ bruh_file.exists
            /\ Len(b) = 8 + 4 * Len(encoded_data)
            /\ b = ContainerBytes(img.width, img.height, encoded_data)
            /\ vec_to_u32_ne(SubSeq(b, 1, 4)) = img.width
            /\ vec_to_u32_ne(SubSeq(b, 5, 8)) = img.height
            /\ RunsOf(b) = encoded_data

\* C8: the compile path never ends in a panic: every failure of the
\* encoding reaches main as an Err and is reported there on stderr, and the
\* success line is printed only when the whole container was written.
C8_FailuresReturned ==
    /\ exit # "panic"
    /\ pc = "exit" =>
          /\ result \in {"Ok", "Err"}
          /\ result = "Err" <=> stderr = <<Failure>>
          /\ result = "Ok" <=> stdout = <<Success>>
          /\ stdout = <<Success>> =>
                cursor = Len(ContainerBytes(img.width, img.height, encoded_data))

(***************************************************************************)
(* Claims checked under SpecDecode (C9: under SpecRender).                 *)
(***************************************************************************)
\* bruh_to_png is past the decode loop.
Expanded == pc \in {"decoded", "paint", "encode", "returned", "app", "ui"}

\* The buffer of line 87 exists.
Allocated == pc \in {"loop", "expand"} \/ Expanded

\* The input was read and its header parsed.
HeaderParsed == bruh_file.exists /\ contents = bruh_file.bytes /\ Len(contents) >= 8

\* C4: a well-framed container whose run lengths sum to more than
\* width*height makes decoding fail with an error value, not a panic; the
\* cursor pos never passes the end of the buffer.
C4_OverrunIsAnError ==
    /\ pos <= Len(decoded_data)
    /\ ( /\ HeaderParsed
         /\ (Len(contents) - 8) % 4 = 0
         /\ ~MulOverflows(vec_to_u32_ne(SubSeq(contents, 1, 4)),
                          vec_to_u32_ne(SubSeq(contents, 5, 8)))
         /\ SumLengths(RunsOf(contents))
              > WrappingMul(vec_to_u32_ne(SubSeq(contents, 1, 4)),
                            vec_to_u32_ne(SubSeq(contents, 5, 8))) )
       => /\ exit # "panic"
          /\ ~Expanded
          /\ pc = "exit" => result = "Err"

\* C5: an input shorter than 8 bytes, or whose bytes after the header are not
\* a multiple of 4, makes the reader fail with an error value: no panic and
\* no pixel buffer handed on.
C5_MalformedIsAnError ==
    ( /\ bruh_file.exists /\ contents = bruh_file.bytes /\ pc # "read"
      /\ \/ Len(contents) < 8
         \/ (Len(contents) - 8) % 4 # 0 )
    => /\ exit # "panic"
       /\ ~Expanded
       /\ pc = "exit" => result = "Err"

\* C7: the viewer is entered only when this run's bruh_to_png produced the
\* encoded image, and the bytes it shows are those bytes.  (Stated for the
\* headers whose product fits 32 bits, which is enough to decide it.)
C7_ViewerOnlyAfterRender ==
    ~MulOverflows(width, height) =>
        /\ viewer # "none" => data.some
        /\ viewer = "showing" => viewer_image = data.bytes

\* C10: the buffer of line 87 has exactly width*height slots, the product
\* taken in the integers: it fits 32 bits and is the buffer's length.
C10_BufferIsFullProduct ==
    Allocated =>
        /\ ~MulOverflows(width, height)
        /\ Len(decoded_data) = WrappingMul(width, height)

\* C9: every paint task i draws only the cell (i mod width, i div width), no
\* two tasks draw the same cell, and once the snapshot is taken every task
\* has run and the snapshot holds buffer[i] at the cell of i for every i and
\* nothing else, whatever the order the tasks ran in.
C9_PaintIsScheduleIndependent ==
    /\ \A d \in drawn : d[2] = <<d[1] % width, d[1] \div width>>
    /\ \A d, e \in drawn : d[2] = e[2] => d[1] = e[1]
    /\ \A d \in drawn : d[2] \in DOMAIN canvas
    /\ pc \in {"encode", "returned", "app", "ui"} =>
          /\ pending = {}
          /\ {d[1] : d \in drawn} = 0..(Len(decoded_data) - 1)
          /\ DOMAIN image = {<<i % width, i \div width>> : i \in 0..(Len(decoded_data) - 1)}
          /\ \A i \in 0..(Len(decoded_data) - 1) :
                image[<<i % width, i \div width>>] =
                    <<decoded_data[i + 1][1], decoded_data[i + 1][2], decoded_data[i + 1][3], 255>>

\* A 2x2 buffer of two colors painted by four tasks and snapshotted.
C9_Witness ==
    /\ pc = "encode"
    /\ width = 2 /\ height = 2
    /\ Cardinality(drawn) = 4
    /\ decoded_data[1] # decoded_data[4]

====
